---- MODULE Spec2Model ----
(***************************************************************************)
(* A model of every-range (src/src/lib.rs): EveryRangeIter wraps a source  *)
(* iterator of Range<usize> and yields every range of [0, end): the        *)
(* source's ranges as Included and the gaps between them as Excluded.      *)
(*                                                                         *)
(* The state is the struct's fields (index, end, iter, next), the result   *)
(* of the last call of next() (ret) and two history variables: out, the    *)
(* items returned so far, and pulled, the ranges the source has yielded.   *)
(***************************************************************************)
EXTENDS Naturals, Sequences, FiniteSets, TLC

VARIABLES index, end, iter, next, ret, out, pulled

vars == <<index, end, iter, next, ret, out, pulled>>

(***************************************************************************)
(* Bounds of the exploration.                                              *)
(***************************************************************************)
\* positions of the arbitrary sources' ranges, and their end, are in 0..MaxPos
MaxPos == 4
\* an arbitrary source yields at most MaxLen ranges
MaxLen == 4

(***************************************************************************)
(* Data: Range<usize>, Option<T>, EveryRangeKind, Item.                    *)
(***************************************************************************)
Range(s, e) == [start |-> s, end |-> e]

Ranges == {Range(s, e) : s \in 0..MaxPos, e \in 0..MaxPos}

None == <<>>

Some(x) == <<x>>

Included == "Included"

Excluded == "Excluded"

Item(k, r) == [kind |-> k, range |-> r]

(***************************************************************************)
(* The sources of the crate's tests (slices, cloned), with their end.      *)
(***************************************************************************)
every_range_matches1 ==
    [src |-> << Range(0, 1), Range(1, 2), Range(2, 3), Range(5, 6), Range(6, 7),
                Range(7, 8), Range(10, 11), Range(11, 12), Range(12, 13) >>,
     end |-> 15]

every_range_matches2 ==
    [src |-> << Range(3, 4), Range(4, 5), Range(8, 9), Range(9, 10),
                Range(13, 14), Range(14, 15) >>,
     end |-> 15]

range_start_after_end == [src |-> << Range(0, 2), Range(4, 6) >>, end |-> 3]

range_end_after_end == [src |-> << Range(0, 2), Range(4, 6) >>, end |-> 5]

range_start_after_index == [src |-> << Range(0, 4), Range(2, 6) >>, end |-> 5]

ranges_out_of_order1 ==
    [src |-> << Range(4, 6), Range(0, 2), Range(8, 10) >>, end |-> 20]

ranges_out_of_order2 ==
    [src |-> << Range(8, 10), Range(0, 2), Range(4, 6) >>, end |-> 20]

ranges_out_of_order3 ==
    [src |-> << Range(0, 2), Range(8, 10), Range(4, 6) >>, end |-> 20]

ranges_out_of_order4 ==
    [src |-> << Range(4, 6), Range(8, 10), Range(0, 2) >>, end |-> 20]

ranges_out_of_order5 ==
    [src |-> << Range(8, 10), Range(4, 6), Range(0, 2) >>, end |-> 20]

Tests ==
    { every_range_matches1, every_range_matches2, range_start_after_end,
      range_end_after_end, range_start_after_index, ranges_out_of_order1,
      ranges_out_of_order2, ranges_out_of_order3, ranges_out_of_order4,
      ranges_out_of_order5 }

(***************************************************************************)
(* The source iterator, I: Iterator<Item = Range<usize>>.  A source is a   *)
(* slice (rest, the ranges it has still to yield, in order) followed by an *)
(* arbitrary tail that yields at most budget more ranges.  Every call may  *)
(* answer None; a fused source answers None for ever after its first None, *)
(* any other source may yield ranges again (Iterator does not forbid it).  *)
(* SourceNext(it) is the set of outcomes of it.next(): the item and the    *)
(* source's state after the call.                                          *)
(***************************************************************************)
SliceSource(s) == [rest |-> s, budget |-> 0, fused |-> TRUE, ended |-> FALSE]

AnySource(f) == [rest |-> <<>>, budget |-> MaxLen, fused |-> f, ended |-> FALSE]

SourceNext(it) ==
    IF it.rest # <<>>
    THEN {[item |-> Some(Head(it.rest)), iter |-> [it EXCEPT !.rest = Tail(@)]]}
    ELSE {[item |-> None, iter |-> [it EXCEPT !.ended = TRUE]]}
         \cup (IF it.budget > 0 /\ ~(it.fused /\ it.ended)
               THEN {[item |-> Some(r), iter |-> [it EXCEPT !.budget = @ - 1]]
                        : r \in Ranges}
               ELSE {})

(***************************************************************************)
(* Results of a call of next().                                            *)
(***************************************************************************)
NotCalled == [tag |-> "init", item |-> None, msg |-> ""]

RetSome(i) == [tag |-> "some", item |-> Some(i), msg |-> ""]

RetNone == [tag |-> "none", item |-> None, msg |-> ""]

Panic(m) == [tag |-> "panic", item |-> None, msg |-> m]

(***************************************************************************)
(* The three assertions of next(), in the order of the code: the message   *)
(* of the first that fails, or Ok.                                         *)
(***************************************************************************)
Ok == "ok"

AssertIndex == "assertion failed: self.index <= next.start"

AssertEnd == "assertion failed: next.end <= self.end"

AssertRange == "assertion failed: next.start <= next.end"

\* a variant without assert!(self.index <= next.start)
Validate_NoIndexCheck(idx, e, r) ==
    IF ~(r.end <= e) THEN AssertEnd
    ELSE IF ~(r.start <= r.end) THEN AssertRange
    ELSE Ok

\* a variant without assert!(next.end <= self.end)
Validate_NoEndCheck(idx, e, r) ==
    IF ~(idx <= r.start) THEN AssertIndex
    ELSE IF ~(r.start <= r.end) THEN AssertRange
    ELSE Ok

\* a variant without assert!(next.start <= next.end)
Validate_NoRangeCheck(idx, e, r) ==
    IF ~(idx <= r.start) THEN AssertIndex
    ELSE IF ~(r.end <= e) THEN AssertEnd
    ELSE Ok

\* a variant that asserts next.end <= self.end first
Validate_EndFirst(idx, e, r) ==
    IF ~(r.end <= e) THEN AssertEnd
    ELSE IF ~(idx <= r.start) THEN AssertIndex
    ELSE IF ~(r.start <= r.end) THEN AssertRange
    ELSE Ok

Validate(idx, e, r) ==
    IF ~(idx <= r.start) THEN AssertIndex
    ELSE IF ~(r.end <= e) THEN AssertEnd
    ELSE IF ~(r.start <= r.end) THEN AssertRange
    ELSE Ok

\* a variant that also sees a gap before a range that starts at the cursor
HasGap_OrTouching(idx, r) == idx <= r.start

\* if self.index < next.start
HasGap(idx, r) == idx < r.start

\* a variant that reports a gap after the last range also when the cursor is at end
HasTrailingGap_OrAtEnd(idx, e) == idx <= e

\* a variant that never reports the gap after the last range
HasTrailingGap_Never(idx, e) == FALSE

\* a variant that leaves a last gap of one position unreported
HasTrailingGap_OffByOne(idx, e) == idx + 1 < e

\* else if self.index < self.end
HasTrailingGap(idx, e) == idx < e

(***************************************************************************)
(* EveryRangeIter::new(iter, end), and every_range(self, end).             *)
(***************************************************************************)
\* a variant that takes the source's first range when it is constructed
new_Eager(it, e) ==
    IF it.rest # <<>>
    THEN [index |-> 0, end |-> e, iter |-> [it EXCEPT !.rest = Tail(@)],
          next |-> Some(Head(it.rest))]
    ELSE [index |-> 0, end |-> e, iter |-> it, next |-> None]

new(it, e) == [index |-> 0, end |-> e, iter |-> it, next |-> None]

\* a variant of every_range that does not pass its end on
every_range_DropsEnd(it, e) == new(it, 0)

every_range(it, e) == new(it, e)

Inputs ==
    {[iter |-> AnySource(f), end |-> e] : f \in BOOLEAN, e \in 0..MaxPos}
    \cup {[iter |-> SliceSource(t.src), end |-> t.end] : t \in Tests}

Init ==
    \E i \in Inputs :
        LET self == every_range(i.iter, i.end)
        IN  /\ index = self.index
            /\ end = self.end
            /\ iter = self.iter
            /\ next = self.next
            /\ ret = NotCalled
            /\ out = <<>>
            /\ pulled = <<>>

\* the same inputs, the iterator made by EveryRangeIter::new(iter, end) itself
InitNew ==
    \E i \in Inputs :
        LET self == new(i.iter, i.end)
        IN  /\ index = self.index
            /\ end = self.end
            /\ iter = self.iter
            /\ next = self.next
            /\ ret = NotCalled
            /\ out = <<>>
            /\ pulled = <<>>

(***************************************************************************)
(* EveryRangeIter::next, one action per path through it.  A panic unwinds  *)
(* out of the consumer: no call follows it.                                *)
(***************************************************************************)
Running == ret.tag # "panic"

\* a variant of NextBuffered that reads the buffer without taking it
NextBuffered_NoTake ==
    /\ Running
    /\ next # None
    /\ LET r == next[1]
       IN  /\ index' = r.end
           /\ ret' = RetSome(Item(Included, r))
           /\ out' = Append(out, Item(Included, r))
    /\ UNCHANGED <<end, iter, next, pulled>>

\* a variant of NextBuffered that forgets self.index = next.end
NextBuffered_KeepsIndex ==
    /\ Running
    /\ next # None
    /\ LET r == next[1]
       IN  /\ next' = None
           /\ ret' = RetSome(Item(Included, r))
           /\ out' = Append(out, Item(Included, r))
    /\ UNCHANGED <<index, end, iter, pulled>>

\* a variant of NextBuffered that calls self.iter.next() before it looks at the buffer
NextBuffered_PullsFirst ==
    /\ Running
    /\ next # None
    /\ \E y \in SourceNext(iter) :
        /\ iter' = y.iter
        /\ pulled' = pulled \o y.item
    /\ LET r == next[1]
       IN  /\ index' = r.end
           /\ next' = None
           /\ ret' = RetSome(Item(Included, r))
           /\ out' = Append(out, Item(Included, r))
    /\ UNCHANGED end

\* if let Some(next) = self.next.take()
NextBuffered ==
    /\ Running
    /\ next # None
    /\ LET r == next[1]
       IN  /\ index' = r.end
           /\ next' = None
           /\ ret' = RetSome(Item(Included, r))
           /\ out' = Append(out, Item(Included, r))
    /\ UNCHANGED <<end, iter, pulled>>

\* a variant of NextPanic that moves the cursor before it asserts
NextPanic_MovesIndex ==
    /\ Running
    /\ next = None
    /\ \E y \in SourceNext(iter) :
        /\ y.item # None
        /\ Validate(index, end, y.item[1]) # Ok
        /\ iter' = y.iter
        /\ pulled' = Append(pulled, y.item[1])
        /\ ret' = Panic(Validate(index, end, y.item[1]))
        /\ index' = y.item[1].start
    /\ UNCHANGED <<end, next, out>>

\* else if let Some(next) = self.iter.next(), and an assertion fails
NextPanic ==
    /\ Running
    /\ next = None
    /\ \E y \in SourceNext(iter) :
        /\ y.item # None
        /\ Validate(index, end, y.item[1]) # Ok
        /\ iter' = y.iter
        /\ pulled' = Append(pulled, y.item[1])
        /\ ret' = Panic(Validate(index, end, y.item[1]))
    /\ UNCHANGED <<index, end, next, out>>

\* a variant of NextGap that forgets self.next = Some(next)
NextGap_DropsRange ==
    /\ Running
    /\ next = None
    /\ \E y \in SourceNext(iter) :
        /\ y.item # None
        /\ Validate(index, end, y.item[1]) = Ok
        /\ HasGap(index, y.item[1])
        /\ iter' = y.iter
        /\ pulled' = Append(pulled, y.item[1])
        /\ LET r == y.item[1]
               start == index
           IN  /\ index' = r.start
               /\ next' = None
               /\ ret' = RetSome(Item(Excluded, Range(start, r.start)))
               /\ out' = Append(out, Item(Excluded, Range(start, r.start)))
    /\ UNCHANGED end

\* a variant of NextGap that forgets self.index = next.start
NextGap_KeepsIndex ==
    /\ Running
    /\ next = None
    /\ \E y \in SourceNext(iter) :
        /\ y.item # None
        /\ Validate(index, end, y.item[1]) = Ok
        /\ HasGap(index, y.item[1])
        /\ iter' = y.iter
        /\ pulled' = Append(pulled, y.item[1])
        /\ LET r == y.item[1]
               start == index
           IN  /\ index' = index
               /\ next' = Some(r)
               /\ ret' = RetSome(Item(Excluded, Range(start, index)))
               /\ out' = Append(out, Item(Excluded, Range(start, index)))
    /\ UNCHANGED end

\* ... the assertions hold and self.index < next.start
NextGap ==
    /\ Running
    /\ next = None
    /\ \E y \in SourceNext(iter) :
        /\ y.item # None
        /\ Validate(index, end, y.item[1]) = Ok
        /\ HasGap(index, y.item[1])
        /\ iter' = y.iter
        /\ pulled' = Append(pulled, y.item[1])
        /\ LET r == y.item[1]
               start == index
           IN  /\ index' = r.start
               /\ next' = Some(r)
               /\ ret' = RetSome(Item(Excluded, Range(start, r.start)))
               /\ out' = Append(out, Item(Excluded, Range(start, r.start)))
    /\ UNCHANGED end

\* a variant of NextNoGap that stores the range in the buffer as NextGap does
NextNoGap_KeepsBuffer ==
    /\ Running
    /\ next = None
    /\ \E y \in SourceNext(iter) :
        /\ y.item # None
        /\ Validate(index, end, y.item[1]) = Ok
        /\ ~HasGap(index, y.item[1])
        /\ iter' = y.iter
        /\ pulled' = Append(pulled, y.item[1])
        /\ LET r == y.item[1]
           IN  /\ index' = r.end
               /\ next' = Some(r)
               /\ ret' = RetSome(Item(Included, r))
               /\ out' = Append(out, Item(Included, r))
    /\ UNCHANGED end

\* ... the assertions hold and self.index = next.start
NextNoGap ==
    /\ Running
    /\ next = None
    /\ \E y \in SourceNext(iter) :
        /\ y.item # None
        /\ Validate(index, end, y.item[1]) = Ok
        /\ ~HasGap(index, y.item[1])
        /\ iter' = y.iter
        /\ pulled' = Append(pulled, y.item[1])
        /\ LET r == y.item[1]
           IN  /\ index' = r.end
               /\ ret' = RetSome(Item(Included, r))
               /\ out' = Append(out, Item(Included, r))
    /\ UNCHANGED <<end, next>>

\* a variant of NextTrailing that forgets self.index = self.end
NextTrailing_KeepsIndex ==
    /\ Running
    /\ next = None
    /\ \E y \in SourceNext(iter) :
        /\ y.item = None
        /\ iter' = y.iter
    /\ HasTrailingGap(index, end)
    /\ LET start == index
       IN  /\ ret' = RetSome(Item(Excluded, Range(start, end)))
           /\ out' = Append(out, Item(Excluded, Range(start, end)))
    /\ UNCHANGED <<index, end, next, pulled>>

\* else if self.index < self.end
NextTrailing ==
    /\ Running
    /\ next = None
    /\ \E y \in SourceNext(iter) :
        /\ y.item = None
        /\ iter' = y.iter
    /\ HasTrailingGap(index, end)
    /\ LET start == index
       IN  /\ index' = end
           /\ ret' = RetSome(Item(Excluded, Range(start, end)))
           /\ out' = Append(out, Item(Excluded, Range(start, end)))
    /\ UNCHANGED <<end, next, pulled>>

\* else None
NextNone ==
    /\ Running
    /\ next = None
    /\ \E y \in SourceNext(iter) :
        /\ y.item = None
        /\ iter' = y.iter
    /\ ~HasTrailingGap(index, end)
    /\ ret' = RetNone
    /\ UNCHANGED <<index, end, next, out, pulled>>

Next ==
    \/ NextBuffered
    \/ NextPanic
    \/ NextGap
    \/ NextNoGap
    \/ NextTrailing
    \/ NextNone

Spec == Init /\ [][Next]_vars

\* the consumer keeps calling next() until it returns None (for_each, a for loop)
FairSpec == Spec /\ WF_vars(Next)

(***************************************************************************)
(* Vocabulary of the properties.                                           *)
(***************************************************************************)
Last(s) == s[Len(s)]

Front(s) == SubSeq(s, 1, Len(s) - 1)

IsIncluded(i) == i.kind = Included

IsExcluded(i) == i.kind = Excluded

\* the ranges of the Included items of o, in order
IncludedOf(o) ==
    LET inc == SelectSeq(o, IsIncluded)
    IN  [k \in 1..Len(inc) |-> inc[k].range]

\* the positions in o of its Included items, in order
IncludedAt(o) ==
    SelectSeq([k \in 1..Len(o) |-> k], LAMBDA k : IsIncluded(o[k]))

\* the half-open ranges a and b share a position, or one lies inside the other
Overlap(a, b) == a.start < b.end /\ b.start < a.end

\* a comes no later than b, by start and then by end
Sorted(a, b) == a.start < b.start \/ (a.start = b.start /\ a.end <= b.end)

\* a valid input: well-formed ranges within [0, e), sorted, pairwise disjoint
ValidInput(s, e) ==
    /\ \A k \in 1..Len(s) : s[k].start <= s[k].end /\ s[k].end <= e
    /\ \A j \in 1..Len(s) : \A k \in 1..Len(s) :
          j < k => Sorted(s[j], s[k]) /\ ~Overlap(s[j], s[k])

\* each item of o starts where the one before it ended
Abuts(o) == \A k \in 1..(Len(o) - 1) : o[k + 1].range.start = o[k].range.end

\* the ranges of o, concatenated in order, are exactly [0, e)
Covers(o, e) ==
    IF o = <<>>
    THEN e = 0
    ELSE /\ o[1].range.start = 0
         /\ Abuts(o)
         /\ \A k \in 1..Len(o) : o[k].range.start <= o[k].range.end
         /\ Last(o).range.end = e

\* the source is a sequence: once next() has returned None, pulled is all of it
Completed == iter.fused /\ ret.tag = "none"

(***************************************************************************)
(* C1 (coverage).  A fused source whose ranges so far are a valid input    *)
(* has not made next() panic, and when next() returns None after a valid   *)
(* input, the emitted ranges concatenated in order are exactly [0, end):   *)
(* the first starts at 0, each later one starts where the one before it    *)
(* ended, the last ends at end (and nothing is emitted only if end = 0).   *)
(***************************************************************************)
C1_Coverage ==
    /\ (iter.fused /\ ValidInput(pulled, end)) => Running
    /\ (Completed /\ ValidInput(pulled, end)) => Covers(out, end)

C1_Witness ==
    /\ Completed
    /\ pulled = every_range_matches1.src
    /\ end = 15
    /\ Len(out) = 12

(***************************************************************************)
(* C2 (identity).  When next() returns None after a valid input, the       *)
(* ranges of the Included items are the source's ranges: as many, the same *)
(* starts and ends, in the same order.                                     *)
(***************************************************************************)
C2_Identity ==
    (Completed /\ ValidInput(pulled, end)) => IncludedOf(out) = pulled

C2_Witness ==
    /\ Completed
    /\ pulled = every_range_matches2.src
    /\ IncludedOf(out) = every_range_matches2.src
    /\ Len(out) = 9

(***************************************************************************)
(* C3 (alternation).  In every state of every run, of any source and end,  *)
(* completed, aborted or under way: no two consecutive items of out are    *)
(* both Excluded; and of two consecutive source ranges that have both been *)
(* emitted, the second follows the first immediately when they touch, and  *)
(* exactly one item, an Excluded one, lies between them otherwise.         *)
(***************************************************************************)
C3_Alternation ==
    /\ \A k \in 1..(Len(out) - 1) : ~(IsExcluded(out[k]) /\ IsExcluded(out[k + 1]))
    /\ LET at == IncludedAt(out)
       IN  \A k \in 1..(Len(at) - 1) :
              /\ out[at[k]].range = pulled[k]
              /\ out[at[k + 1]].range = pulled[k + 1]
              /\ IF pulled[k + 1].start = pulled[k].end
                 THEN at[k + 1] = at[k] + 1
                 ELSE /\ at[k + 1] = at[k] + 2
                      /\ IsExcluded(out[at[k] + 1])

C3_Witness ==
    /\ pulled = every_range_matches1.src
    /\ ret.tag = "some"
    /\ Len(out) = 12
    /\ IncludedAt(out) = <<1, 2, 3, 5, 6, 7, 9, 10, 11>>

(***************************************************************************)
(* C4 (idempotent exhaustion).  For every source, once next() has returned *)
(* None, every later call of next() returns None.                          *)
(***************************************************************************)
C4_IdempotentExhaustion == [][ret.tag = "none" => ret'.tag = "none"]_vars

\* the call of next() in this step got a range from the source
Pulls == pulled' # pulled

\* this step's call of next() fails with message m, emits and changes nothing
AbortsWith(m) ==
    /\ ret' = Panic(m)
    /\ out' = out
    /\ index' = index
    /\ next' = next
    /\ next = None

(***************************************************************************)
(* C5 (ordering abort).  A call of next() that pulls a range starting      *)
(* before the cursor panics on self.index <= next.start and emits nothing. *)
(* A source that starts 4..6, 0..2, with end = 20, yields (Excluded, 0..4) *)
(* and (Included, 4..6) and then panics, the cursor at 6.                  *)
(***************************************************************************)
C5_OrderingAbort ==
    /\ [][(Pulls /\ Last(pulled').start < index) => AbortsWith(AssertIndex)]_vars
    /\ []((end = 20 /\ pulled = <<Range(4, 6), Range(0, 2)>>)
            => /\ ret = Panic(AssertIndex)
               /\ out = <<Item(Excluded, Range(0, 4)), Item(Included, Range(4, 6))>>
               /\ index = 6)

C5_Witness ==
    /\ ret = Panic(AssertIndex)
    /\ end = 20
    /\ pulled = <<Range(4, 6), Range(0, 2)>>
    /\ Len(out) = 2

(***************************************************************************)
(* C6 (domain-bound abort).  A call of next() that pulls a range starting  *)
(* at or after the cursor and ending after end panics on                   *)
(* next.end <= self.end and emits nothing, whether the range starts before *)
(* end (0..2, 4..6 with end = 5) or not (0..2, 4..6 with end = 3).         *)
(***************************************************************************)
C6_DomainBoundAbort ==
    /\ [][(Pulls /\ Last(pulled').start >= index /\ Last(pulled').end > end)
            => AbortsWith(AssertEnd)]_vars
    /\ []((end \in {3, 5} /\ pulled = <<Range(0, 2), Range(4, 6)>>)
            => /\ ret = Panic(AssertEnd)
               /\ out = <<Item(Included, Range(0, 2))>>
               /\ index = 2)

C6_Witness ==
    /\ ret = Panic(AssertEnd)
    /\ end = 5
    /\ pulled = <<Range(0, 2), Range(4, 6)>>
    /\ out = <<Item(Included, Range(0, 2))>>

(***************************************************************************)
(* C7 (malformed-range abort).  A call of next() that pulls a range with   *)
(* start > end panics on one of the three assertions, whatever the cursor  *)
(* and end, and emits nothing; no range with start > end is ever in an     *)
(* Included item or in the buffer.                                         *)
(***************************************************************************)
C7_MalformedAbort ==
    /\ [][(Pulls /\ Last(pulled').start > Last(pulled').end)
            => \E m \in {AssertIndex, AssertEnd, AssertRange} : AbortsWith(m)]_vars
    /\ [](/\ \A k \in 1..Len(out) :
                IsIncluded(out[k]) => out[k].range.start <= out[k].range.end
          /\ next # None => next[1].start <= next[1].end)

C7_Witness ==
    /\ ret = Panic(AssertRange)
    /\ index > 0
    /\ Last(pulled).start > Last(pulled).end
    /\ Last(pulled).start >= index
    /\ Last(pulled).end <= end

(***************************************************************************)
(* C8 (lazy validation).  Construction pulls nothing and checks nothing:   *)
(* before the first call the source is untouched and the buffer empty.  A  *)
(* panic happens in the call that pulls the first violating range: the     *)
(* ranges pulled before it passed the checks and have all been emitted,    *)
(* the last item ending at the cursor.  The source 0..2, 4..6 with end = 3 *)
(* yields (Included, 0..2) on the first call and panics on the second,     *)
(* with no Excluded 2..3.                                                  *)
(***************************************************************************)
C8_LazyValidation ==
    /\ ret.tag = "init" =>
          /\ pulled = <<>> /\ out = <<>> /\ next = None /\ index = 0
          /\ ~iter.ended
          /\ \/ iter.rest = <<>> /\ iter.budget = MaxLen
             \/ \E t \in Tests : iter.rest = t.src /\ end = t.end
    /\ \A k \in 1..Len(pulled) :
          (k < Len(pulled) \/ Running) =>
             /\ pulled[k].start <= pulled[k].end
             /\ pulled[k].end <= end
             /\ k > 1 => pulled[k - 1].end <= pulled[k].start
    /\ ret.tag = "panic" =>
          /\ pulled # <<>>
          /\ LET r == Last(pulled)
             IN  r.start < index \/ r.end > end \/ r.start > r.end
          /\ IncludedOf(out) = Front(pulled)
          /\ out # <<>> => Last(out).range.end = index
    /\ (end = 3 /\ pulled = <<Range(0, 2)>> /\ iter.rest = <<Range(4, 6)>>)
          => ret = RetSome(Item(Included, Range(0, 2)))
    /\ (end = 3 /\ pulled = <<Range(0, 2), Range(4, 6)>>)
          => ret.tag = "panic" /\ out = <<Item(Included, Range(0, 2))>>

C8_Witness ==
    /\ end = 3
    /\ pulled = <<Range(0, 2), Range(4, 6)>>
    /\ ret.tag = "panic"
    /\ Len(out) = 1

(***************************************************************************)
(* C9 (check precedence).  The assertions are evaluated in the order       *)
(* self.index <= next.start, next.end <= self.end, next.start <= next.end, *)
(* and the first that fails is the one reported: a range that starts       *)
(* before the cursor is reported as such also when it ends after end or is *)
(* malformed, and a range ending after end is reported as such also when   *)
(* it is malformed.  2..6 after 0..4 with end = 5 fails on                 *)
(* self.index <= next.start.                                               *)
(***************************************************************************)
C9_CheckPrecedence ==
    /\ [][Pulls =>
            LET r == Last(pulled')
            IN  /\ (r.start < index /\ r.end > end) => ret' = Panic(AssertIndex)
                /\ (r.start < index /\ r.start > r.end) => ret' = Panic(AssertIndex)
                /\ (r.start >= index /\ r.end > end /\ r.start > r.end)
                      => ret' = Panic(AssertEnd)
                /\ ret' = Panic(AssertEnd) => r.start >= index
                /\ ret' = Panic(AssertRange) => (r.start >= index /\ r.end <= end)]_vars
    /\ []((end = 5 /\ pulled = <<Range(0, 4), Range(2, 6)>>)
            => ret = Panic(AssertIndex) /\ out = <<Item(Included, Range(0, 4))>>)

C9_Witness ==
    /\ end = 5
    /\ pulled = <<Range(0, 4), Range(2, 6)>>
    /\ ret = Panic(AssertIndex)
    /\ Last(pulled).start < index
    /\ Last(pulled).end > end

\* the end of the last range of s, 0 if there is none
LastEnd(s) == IF s = <<>> THEN 0 ELSE Last(s).end

(***************************************************************************)
(* C10 (trailing gap).  A call of next() that finds the buffer empty and   *)
(* the source exhausted returns (Excluded, [cursor, end)) and moves the    *)
(* cursor to end if cursor < end, and returns None otherwise.  So a        *)
(* completed run of a valid input ends with an Excluded item iff end is    *)
(* greater than the end of the last source range (than 0, for an empty     *)
(* source), and an empty source with end > 0 yields the single item        *)
(* (Excluded, [0, end)).                                                   *)
(***************************************************************************)
C10_TrailingGap ==
    /\ [][(next = None /\ ~Pulls) =>
            IF index < end
            THEN /\ ret' = RetSome(Item(Excluded, Range(index, end)))
                 /\ out' = Append(out, Item(Excluded, Range(index, end)))
                 /\ index' = end
                 /\ next' = None
            ELSE /\ ret' = RetNone
                 /\ out' = out
                 /\ index' = index
                 /\ next' = None]_vars
    /\ []((Completed /\ ValidInput(pulled, end)) =>
            /\ (out # <<>> /\ IsExcluded(Last(out))) <=> end > LastEnd(pulled)
            /\ end > LastEnd(pulled)
                  => Last(out) = Item(Excluded, Range(LastEnd(pulled), end))
            /\ (pulled = <<>> /\ end > 0)
                  => out = <<Item(Excluded, Range(0, end))>>)

C10_Witness ==
    /\ Completed
    /\ pulled = <<>>
    /\ end = MaxPos
    /\ out = <<Item(Excluded, Range(0, MaxPos))>>

(***************************************************************************)
(* C11 (empty output).  A first call of next() that finds the source empty *)
(* and end = 0 returns None; and a run that has completed has yielded no   *)
(* item iff end = 0 and the source yielded no range.                       *)
(***************************************************************************)
C11_EmptyOutput ==
    /\ [][(ret = NotCalled /\ end = 0 /\ ~Pulls) => (ret' = RetNone /\ out' = <<>>)]_vars
    /\ [](Completed => (out = <<>> <=> (end = 0 /\ pulled = <<>>)))

C11_Witness ==
    /\ Completed
    /\ out = <<>>
    /\ end = 0
    /\ pulled = <<>>
    /\ index = 0

\* the run is over: next() has returned None or panicked
Finished == ret.tag \in {"none", "panic"}

(***************************************************************************)
(* C12 (termination and output bound).  A consumer that keeps calling      *)
(* next() gets None or a panic after finitely many calls, and at any time  *)
(* the number of items emitted is at most twice the number of ranges the   *)
(* source has yielded, plus one.                                           *)
(***************************************************************************)
C12_TerminationAndBound ==
    /\ [](Len(out) <= 2 * Len(pulled) + 1)
    /\ <>Finished

C12_Witness ==
    /\ Completed
    /\ Len(pulled) = 2
    /\ Len(out) = 5

(***************************************************************************)
(* C13 (cursor bound).  In every state, after construction and after any   *)
(* number of calls of next(), for any source and up to and including a     *)
(* panicking call, 0 <= index <= end.                                      *)
(***************************************************************************)
C13_CursorBound == index \in Nat /\ 0 <= index /\ index <= end

C13_Witness ==
    /\ ret.tag = "panic"
    /\ 0 < index
    /\ index < end
    /\ Last(pulled).end > end
    /\ Len(out) >= 2

(***************************************************************************)
(* C14 (constructor equivalence).  For every source and end,               *)
(* source.every_range(end) is the iterator EveryRangeIter::new(source,     *)
(* end) makes (index 0, empty buffer, that end, that source), and every    *)
(* run of an iterator made by every_range, its items and its panic, is a   *)
(* run of the iterator made by new from the same source and end.           *)
(***************************************************************************)
C14_ConstructorEquivalence ==
    /\ InitNew
    /\ [][Next]_vars
    /\ [](\A i \in Inputs :
            /\ every_range(i.iter, i.end) = new(i.iter, i.end)
            /\ every_range(i.iter, i.end).index = 0
            /\ every_range(i.iter, i.end).next = None
            /\ every_range(i.iter, i.end).end = i.end
            /\ every_range(i.iter, i.end).iter = i.iter)

C14_Witness ==
    /\ end = 15
    /\ ret.tag = "some"
    /\ out = << Item(Excluded, Range(0, 3)), Item(Included, Range(3, 4)),
                Item(Included, Range(4, 5)) >>

(***************************************************************************)
(* C15 (abutment per step).  Every call of next() that returns an item     *)
(* returns a range that starts at the cursor as it was before the call,    *)
(* and leaves the cursor at that range's end.  So the cursor is always the *)
(* end of the last item emitted (0 before the first), and the items        *)
(* emitted, also those before a panic, each start where the one before     *)
(* ended and none runs backwards.                                          *)
(***************************************************************************)
C15_AbutmentPerStep ==
    /\ [][out' # out =>
            /\ out' = Append(out, Last(out'))
            /\ ret' = RetSome(Last(out'))
            /\ Last(out').range.start = index
            /\ index' = Last(out').range.end]_vars
    /\ [](/\ index = (IF out = <<>> THEN 0 ELSE Last(out).range.end)
          /\ Abuts(out)
          /\ \A k \in 1..Len(out) : out[k].range.start <= out[k].range.end)

C15_Witness ==
    /\ ret.tag = "panic"
    /\ Len(out) = 3
    /\ IsIncluded(out[3])
    /\ out[3].range.start < out[3].range.end
    /\ index = out[3].range.end

(***************************************************************************)
(* C16 (gap step protocol).  A call of next() that pulls a range r that    *)
(* passes the assertions, with the cursor before r.start, returns          *)
(* (Excluded, [cursor, r.start)), moves the cursor to r.start and puts r   *)
(* in the buffer.  The call that follows, which finds r in the buffer,     *)
(* pulls nothing, returns (Included, r), moves the cursor to r.end and     *)
(* leaves the buffer empty; when r is in the buffer the last call is the   *)
(* one that returned the Excluded range before r.                          *)
(***************************************************************************)
C16_GapStepProtocol ==
    /\ [][(Pulls /\ LET r == Last(pulled')
                   IN  index < r.start /\ r.start <= r.end /\ r.end <= end)
          => LET r == Last(pulled')
             IN  /\ ret' = RetSome(Item(Excluded, Range(index, r.start)))
                 /\ out' = Append(out, Item(Excluded, Range(index, r.start)))
                 /\ index' = r.start
                 /\ next' = Some(r)]_vars
    /\ [][(next # None /\ ret' # ret)
          => /\ ret' = RetSome(Item(Included, next[1]))
             /\ out' = Append(out, Item(Included, next[1]))
             /\ index' = next[1].end
             /\ next' = None
             /\ ~Pulls
             /\ iter' = iter]_vars
    /\ [][next # None => (ret' # ret /\ out' # out)]_vars
    /\ [](next # None =>
            /\ ret.tag = "some"
            /\ IsExcluded(ret.item[1])
            /\ ret.item[1].range.end = next[1].start
            /\ Last(pulled) = next[1])

C16_Witness ==
    /\ ret = RetSome(Item(Included, Range(2, 4)))
    /\ out = <<Item(Excluded, Range(0, 2)), Item(Included, Range(2, 4))>>
    /\ pulled = <<Range(2, 4)>>
    /\ index = 4
    /\ next = None

(***************************************************************************)
(* C17 (pull discipline).  A call of next() calls the source's next() at   *)
(* most once, so takes at most one range from it, and returns at most one  *)
(* item; a call that finds a range in the buffer leaves the source alone.  *)
(* So the ranges taken from the source are never more than the Included    *)
(* items emitted, plus one.                                                *)
(***************************************************************************)
C17_PullDiscipline ==
    /\ [][/\ iter' = iter \/ \E y \in SourceNext(iter) : iter' = y.iter
          /\ Pulls => (Len(pulled') = Len(pulled) + 1 /\ Front(pulled') = pulled
                       /\ \E y \in SourceNext(iter) :
                             y.item = Some(Last(pulled')) /\ iter' = y.iter)
          /\ out' # out => (Len(out') = Len(out) + 1 /\ Front(out') = out)
          /\ next # None => (pulled' = pulled /\ iter' = iter)]_vars
    /\ [](Len(pulled) <= Len(IncludedOf(out)) + 1)

C17_Witness ==
    /\ next # None
    /\ Len(pulled) = 3
    /\ Len(IncludedOf(out)) = 2
    /\ Len(out) = 4

(***************************************************************************)
(* C18 (non-empty gaps).  Every Excluded range emitted, for any source and *)
(* end, has start < end.  An Included range can be empty: a call that      *)
(* pulls the range [cursor, cursor) returns it as an Included item and     *)
(* leaves the cursor where it was.                                         *)
(***************************************************************************)
C18_NonEmptyGaps ==
    /\ [](\A k \in 1..Len(out) :
            IsExcluded(out[k]) => out[k].range.start < out[k].range.end)
    /\ [][(Pulls /\ Last(pulled') = Range(index, index))
          => /\ ret' = RetSome(Item(Included, Range(index, index)))
             /\ out' = Append(out, Item(Included, Range(index, index)))
             /\ index' = index
             /\ next' = None]_vars

C18_Witness ==
    /\ out = << Item(Excluded, Range(0, 1)), Item(Included, Range(1, 2)),
                Item(Included, Range(2, 2)) >>
    /\ ret = RetSome(Item(Included, Range(2, 2)))
    /\ index = 2

(***************************************************************************)
(* C19 (state unchanged on abort).  A call of next() that panics on one of *)
(* the three assertions leaves index, end and the buffer as they were and  *)
(* emits nothing; its one effect is that the source has yielded the        *)
(* offending range.                                                        *)
(***************************************************************************)
C19_StateUnchangedOnAbort ==
    [][(ret'.tag = "panic" /\ ret.tag # "panic")
       => /\ ret'.msg \in {AssertIndex, AssertEnd, AssertRange}
          /\ index' = index
          /\ end' = end
          /\ next' = next
          /\ out' = out
          /\ Len(pulled') = Len(pulled) + 1
          /\ Front(pulled') = pulled
          /\ \E y \in SourceNext(iter) :
                y.item = Some(Last(pulled')) /\ iter' = y.iter]_vars

C19_Witness ==
    /\ ret = Panic(AssertIndex)
    /\ index = 3
    /\ out = <<Item(Excluded, Range(0, 1)), Item(Included, Range(1, 3))>>
    /\ pulled = <<Range(1, 3), Range(2, 4)>>
    /\ next = None

(***************************************************************************)
(* C20 (buffer invariant).  In every state where the buffer holds a range  *)
(* r: the cursor is r.start, r.start <= r.end <= end, and the last item    *)
(* emitted, the one the last call returned, is an Excluded range ending at *)
(* r.start.  The buffer is empty before the first call and after every     *)
(* call that returned an Included item or None.                            *)
(***************************************************************************)
C20_BufferInvariant ==
    /\ next # None =>
          LET r == next[1]
          IN  /\ Len(next) = 1
              /\ index = r.start
              /\ r.start <= r.end
              /\ r.end <= end
              /\ out # <<>>
              /\ IsExcluded(Last(out))
              /\ Last(out).range.end = r.start
              /\ ret = RetSome(Last(out))
    /\ ret.tag \in {"init", "none"} => next = None
    /\ (ret.tag = "some" /\ IsIncluded(ret.item[1])) => next = None

C20_Witness ==
    /\ next = Some(Range(3, 4))
    /\ index = 3
    /\ out = <<Item(Included, Range(0, 1)), Item(Excluded, Range(1, 3))>>
    /\ end = 4

TypeOK ==
    /\ index \in Nat
    /\ end \in Nat
    /\ Len(next) <= 1
    /\ ret.tag \in {"init", "some", "none", "panic"}

====
